---- MODULE Spec2Model ----
(***************************************************************************)
(* Parachute Trains Puzzle - the "Sweep & Wait" simulation engine of       *)
(* src/lib/simulation.ts.  Two trains on an integer line run the same      *)
(* sweep algorithm; simulateStep advances both from one snapshot and       *)
(* flags a collision when they share a position.                           *)
(*                                                                         *)
(* The model runs runSimulation(distance, maxSteps) to its return and then *)
(* lets the holder of the returned world keep calling simulateStep on it   *)
(* (the auto-play timer and the test loops do so).  A second world, built  *)
(* by createSimulation(-distance), is stepped tick for tick with the first *)
(* so that the runs for D and -D can be compared.  The train objects the   *)
(* steps allocate are kept in a heap, to see which object each step writes.*)
(***************************************************************************)
EXTENDS Integers, Sequences, FiniteSets, TLC

\* ---------------------------------------------------------------- bounds
\* separations tried are -MaxD .. MaxD
MaxD == 4
\* calls of simulateStep the caller makes on the world runSimulation returned
MaxExtra == 3
\* largest step budget handed to runSimulation; large enough for every
\* separation in -MaxD .. MaxD to collide
MaxBudget == 2 * MaxD * MaxD + 2

\* ----------------------------------------------------------------- types
\* collisionPosition: number | null  (null is <<>>, the number p is <<p>>)
Null == <<>>
Num(p) == <<p>>

\* --------------------------------------------------------- train algorithm
\* variant: tells a foreign parachute by the absolute coordinate, not by the
\* distance from home
isAtForeignParachute_AbsoluteZero(train, otherTrainParachutePos) ==
    /\ train.position = otherTrainParachutePos
    /\ train.position # 0

\* variant: any displacement from home counts as a foreign parachute
isAtForeignParachute_OffsetOnly(train, otherTrainParachutePos) ==
    train.distanceFromHome # 0

isAtForeignParachute(train, otherTrainParachutePos) ==
    /\ train.position = otherTrainParachutePos
    /\ train.distanceFromHome # 0

\* variant: never looks for the foreign parachute
getNextAction_NoForeignCheck(train, otherTrainParachutePos) ==
    IF train.isWaiting
    THEN "wait"
    ELSE CASE train.sweepPhase \in {"sweep_forward", "return_from_backward"} -> "forward"
           [] train.sweepPhase \in {"return_from_forward", "sweep_backward"} -> "backward"
           [] OTHER -> "wait"

\* variant: the two direction cases are swapped (the sweep starts backward)
getNextAction_BackwardFirst(train, otherTrainParachutePos) ==
    IF train.isWaiting
    THEN "wait"
    ELSE IF isAtForeignParachute(train, otherTrainParachutePos)
    THEN "wait"
    ELSE CASE train.sweepPhase \in {"sweep_forward", "return_from_backward"} -> "backward"
           [] train.sweepPhase \in {"return_from_forward", "sweep_backward"} -> "forward"
           [] OTHER -> "wait"

getNextAction(train, otherTrainParachutePos) ==
    IF train.isWaiting
    THEN "wait"
    ELSE IF isAtForeignParachute(train, otherTrainParachutePos)
    THEN "wait"
    ELSE CASE train.sweepPhase \in {"sweep_forward", "return_from_backward"} -> "forward"
           [] train.sweepPhase \in {"return_from_forward", "sweep_backward"} -> "backward"
           [] OTHER -> "wait"

\* variant: the wait case flips the latch instead of setting it
applyMovement_LatchToggle(train, action, otherTrainParachutePos) ==
    CASE action = "forward" ->
           [train EXCEPT !.position = @ + 1,
                         !.distanceFromHome = @ + 1,
                         !.stepsInPhase = @ + 1]
      [] action = "backward" ->
           [train EXCEPT !.position = @ - 1,
                         !.distanceFromHome = @ - 1,
                         !.stepsInPhase = @ + 1]
      [] action = "wait" ->
           IF isAtForeignParachute(train, otherTrainParachutePos)
           THEN [train EXCEPT !.isWaiting = ~train.isWaiting]
           ELSE train

\* variant: the backward case forgets to update distanceFromHome
applyMovement_BackwardKeepsOffset(train, action, otherTrainParachutePos) ==
    CASE action = "forward" ->
           [train EXCEPT !.position = @ + 1,
                         !.distanceFromHome = @ + 1,
                         !.stepsInPhase = @ + 1]
      [] action = "backward" ->
           [train EXCEPT !.position = @ - 1,
                         !.stepsInPhase = @ + 1]
      [] action = "wait" ->
           IF isAtForeignParachute(train, otherTrainParachutePos)
           THEN [train EXCEPT !.isWaiting = TRUE]
           ELSE train

\* variant: the wait case never sets the latch
applyMovement_NoLatch(train, action, otherTrainParachutePos) ==
    CASE action = "forward" ->
           [train EXCEPT !.position = @ + 1,
                         !.distanceFromHome = @ + 1,
                         !.stepsInPhase = @ + 1]
      [] action = "backward" ->
           [train EXCEPT !.position = @ - 1,
                         !.distanceFromHome = @ - 1,
                         !.stepsInPhase = @ + 1]
      [] action = "wait" -> train

\* variant: a wait is counted as a step of the current sub-phase
applyMovement_WaitCountsStep(train, action, otherTrainParachutePos) ==
    CASE action = "forward" ->
           [train EXCEPT !.position = @ + 1,
                         !.distanceFromHome = @ + 1,
                         !.stepsInPhase = @ + 1]
      [] action = "backward" ->
           [train EXCEPT !.position = @ - 1,
                         !.distanceFromHome = @ - 1,
                         !.stepsInPhase = @ + 1]
      [] action = "wait" ->
           IF isAtForeignParachute(train, otherTrainParachutePos)
           THEN [train EXCEPT !.isWaiting = TRUE, !.stepsInPhase = @ + 1]
           ELSE [train EXCEPT !.stepsInPhase = @ + 1]

\* variant: a forward move drags the train's parachute along
applyMovement_MovesParachute(train, action, otherTrainParachutePos) ==
    CASE action = "forward" ->
           [train EXCEPT !.position = @ + 1,
                         !.parachutePosition = @ + 1,
                         !.distanceFromHome = @ + 1,
                         !.stepsInPhase = @ + 1]
      [] action = "backward" ->
           [train EXCEPT !.position = @ - 1,
                         !.distanceFromHome = @ - 1,
                         !.stepsInPhase = @ + 1]
      [] action = "wait" ->
           IF isAtForeignParachute(train, otherTrainParachutePos)
           THEN [train EXCEPT !.isWaiting = TRUE]
           ELSE train

\* the movement switch of applyAction (lines 103-122)
applyMovement(train, action, otherTrainParachutePos) ==
    CASE action = "forward" ->
           [train EXCEPT !.position = @ + 1,
                         !.distanceFromHome = @ + 1,
                         !.stepsInPhase = @ + 1]
      [] action = "backward" ->
           [train EXCEPT !.position = @ - 1,
                         !.distanceFromHome = @ - 1,
                         !.stepsInPhase = @ + 1]
      [] action = "wait" ->
           IF isAtForeignParachute(train, otherTrainParachutePos)
           THEN [train EXCEPT !.isWaiting = TRUE]
           ELSE train

\* variant: the range also grows when the backward sweep completes
nextSweepPhase_BumpOnBackward(newTrain) ==
    CASE newTrain.sweepPhase = "sweep_forward" ->
           [newTrain EXCEPT !.sweepPhase = "return_from_forward"]
      [] newTrain.sweepPhase = "return_from_forward" ->
           [newTrain EXCEPT !.sweepPhase = "sweep_backward"]
      [] newTrain.sweepPhase = "sweep_backward" ->
           [newTrain EXCEPT !.sweepPhase = "return_from_backward",
                            !.phaseNumber = @ + 1]
      [] newTrain.sweepPhase = "return_from_backward" ->
           [newTrain EXCEPT !.sweepPhase = "sweep_forward",
                            !.phaseNumber = @ + 1]

\* variant: the forward sweep is followed by the backward sweep, without the
\* return home
nextSweepPhase_SkipReturn(newTrain) ==
    CASE newTrain.sweepPhase = "sweep_forward" ->
           [newTrain EXCEPT !.sweepPhase = "sweep_backward"]
      [] newTrain.sweepPhase = "return_from_forward" ->
           [newTrain EXCEPT !.sweepPhase = "sweep_backward"]
      [] newTrain.sweepPhase = "sweep_backward" ->
           [newTrain EXCEPT !.sweepPhase = "return_from_backward"]
      [] newTrain.sweepPhase = "return_from_backward" ->
           [newTrain EXCEPT !.sweepPhase = "sweep_forward",
                            !.phaseNumber = @ + 1]

\* the inner switch of the phase transition (lines 128-143)
nextSweepPhase(newTrain) ==
    CASE newTrain.sweepPhase = "sweep_forward" ->
           [newTrain EXCEPT !.sweepPhase = "return_from_forward"]
      [] newTrain.sweepPhase = "return_from_forward" ->
           [newTrain EXCEPT !.sweepPhase = "sweep_backward"]
      [] newTrain.sweepPhase = "sweep_backward" ->
           [newTrain EXCEPT !.sweepPhase = "return_from_backward"]
      [] newTrain.sweepPhase = "return_from_backward" ->
           [newTrain EXCEPT !.sweepPhase = "sweep_forward",
                            !.phaseNumber = @ + 1]

\* variant: the transition fires one step late (> instead of >=)
applyPhaseTransition_Strict(newTrain) ==
    IF ~newTrain.isWaiting /\ newTrain.stepsInPhase > newTrain.phaseNumber
    THEN nextSweepPhase([newTrain EXCEPT !.stepsInPhase = 0])
    ELSE newTrain

\* the phase transition check of applyAction (lines 124-144)
applyPhaseTransition(newTrain) ==
    IF ~newTrain.isWaiting /\ newTrain.stepsInPhase >= newTrain.phaseNumber
    THEN nextSweepPhase([newTrain EXCEPT !.stepsInPhase = 0])
    ELSE newTrain

applyAction(train, action, otherTrainParachutePos) ==
    applyPhaseTransition(applyMovement(train, action, otherTrainParachutePos))

\* ------------------------------------------------------- simulation engine
\* variant: every train's parachute is put at the origin
createTrainState_HomeZero(position) ==
    [position |-> position,
     parachutePosition |-> 0,
     distanceFromHome |-> 0,
     sweepPhase |-> "sweep_forward",
     phaseNumber |-> 1,
     stepsInPhase |-> 0,
     isWaiting |-> FALSE]

createTrainState(position) ==
    [position |-> position,
     parachutePosition |-> position,
     distanceFromHome |-> 0,
     sweepPhase |-> "sweep_forward",
     phaseNumber |-> 1,
     stepsInPhase |-> 0,
     isWaiting |-> FALSE]

createSimulation(d) ==
    [trainA |-> createTrainState(0),
     trainB |-> createTrainState(d),
     stepCount |-> 0,
     hasCollided |-> FALSE,
     collisionPosition |-> Null]

checkCollision(trainA, trainB) == trainA.position = trainB.position

\* variant: the trains are handed each other's live position instead of the
\* parachute position
simulateStep_Peek(s) ==
    IF s.hasCollided
    THEN s
    ELSE LET actionA == getNextAction(s.trainA, s.trainB.position)
             actionB == getNextAction(s.trainB, s.trainA.position)
             newTrainA == applyAction(s.trainA, actionA, s.trainB.position)
             newTrainB == applyAction(s.trainB, actionB, s.trainA.position)
             collided == checkCollision(newTrainA, newTrainB)
         IN  [trainA |-> newTrainA,
              trainB |-> newTrainB,
              stepCount |-> s.stepCount + 1,
              hasCollided |-> collided,
              collisionPosition |-> IF collided THEN Num(newTrainA.position) ELSE Null]

\* variant: the tick that detects the collision is not counted
simulateStep_CollisionTickUncounted(s) ==
    IF s.hasCollided
    THEN s
    ELSE LET actionA == getNextAction(s.trainA, s.trainB.parachutePosition)
             actionB == getNextAction(s.trainB, s.trainA.parachutePosition)
             newTrainA == applyAction(s.trainA, actionA, s.trainB.parachutePosition)
             newTrainB == applyAction(s.trainB, actionB, s.trainA.parachutePosition)
             collided == checkCollision(newTrainA, newTrainB)
         IN  [trainA |-> newTrainA,
              trainB |-> newTrainB,
              stepCount |-> IF collided THEN s.stepCount ELSE s.stepCount + 1,
              hasCollided |-> collided,
              collisionPosition |-> IF collided THEN Num(newTrainA.position) ELSE Null]

\* variant: no early return on a collided world
simulateStep_NoGuard(s) ==
    LET actionA == getNextAction(s.trainA, s.trainB.parachutePosition)
        actionB == getNextAction(s.trainB, s.trainA.parachutePosition)
        newTrainA == applyAction(s.trainA, actionA, s.trainB.parachutePosition)
        newTrainB == applyAction(s.trainB, actionB, s.trainA.parachutePosition)
        collided == checkCollision(newTrainA, newTrainB)
    IN  [trainA |-> newTrainA,
         trainB |-> newTrainB,
         stepCount |-> s.stepCount + 1,
         hasCollided |-> collided,
         collisionPosition |-> IF collided THEN Num(newTrainA.position) ELSE Null]

\* variant: the collision check looks at the trains before the tick
simulateStep_PreTickCheck(s) ==
    IF s.hasCollided
    THEN s
    ELSE LET actionA == getNextAction(s.trainA, s.trainB.parachutePosition)
             actionB == getNextAction(s.trainB, s.trainA.parachutePosition)
             newTrainA == applyAction(s.trainA, actionA, s.trainB.parachutePosition)
             newTrainB == applyAction(s.trainB, actionB, s.trainA.parachutePosition)
             collided == checkCollision(s.trainA, s.trainB)
         IN  [trainA |-> newTrainA,
              trainB |-> newTrainB,
              stepCount |-> s.stepCount + 1,
              hasCollided |-> collided,
              collisionPosition |-> IF collided THEN Num(newTrainA.position) ELSE Null]

\* variant: collisionPosition is filled in on every tick
simulateStep_AlwaysPosition(s) ==
    IF s.hasCollided
    THEN s
    ELSE LET actionA == getNextAction(s.trainA, s.trainB.parachutePosition)
             actionB == getNextAction(s.trainB, s.trainA.parachutePosition)
             newTrainA == applyAction(s.trainA, actionA, s.trainB.parachutePosition)
             newTrainB == applyAction(s.trainB, actionB, s.trainA.parachutePosition)
             collided == checkCollision(newTrainA, newTrainB)
         IN  [trainA |-> newTrainA,
              trainB |-> newTrainB,
              stepCount |-> s.stepCount + 1,
              hasCollided |-> collided,
              collisionPosition |-> Num(newTrainA.position)]

simulateStep(s) ==
    IF s.hasCollided
    THEN s
    ELSE LET actionA == getNextAction(s.trainA, s.trainB.parachutePosition)
             actionB == getNextAction(s.trainB, s.trainA.parachutePosition)
             newTrainA == applyAction(s.trainA, actionA, s.trainB.parachutePosition)
             newTrainB == applyAction(s.trainB, actionB, s.trainA.parachutePosition)
             collided == checkCollision(newTrainA, newTrainB)
         IN  [trainA |-> newTrainA,
              trainB |-> newTrainB,
              stepCount |-> s.stepCount + 1,
              hasCollided |-> collided,
              collisionPosition |-> IF collided THEN Num(newTrainA.position) ELSE Null]

\* ---------------------------------------------------- objects and aliasing
\* Train records are JavaScript objects.  The heap is the sequence of train
\* objects allocated so far; an object's address is its index.  The
\* operators below replay applyAction and simulateStep on the heap to track
\* which object each assignment writes to.

\* variant: `const newTrain = train` - no copy, the writes land in the input
spreadTarget_Alias(h, a) == a

\* `const newTrain = { ...train }`: the writes of applyAction go to a new object
spreadTarget(h, a) == Len(h) + 1

\* applyAction on the heap: copy the train at address a, write the updated
\* fields into the copy, return the copy's address
applyActionOnHeap(h, a, action, otherTrainParachutePos) ==
    LET dst == spreadTarget(h, a)
        copied == IF dst = Len(h) + 1 THEN Append(h, h[a]) ELSE h
    IN  [heap |-> [copied EXCEPT ![dst] = applyAction(h[a], action, otherTrainParachutePos)],
         ref |-> dst]

\* simulateStep on the heap: s is the world, r the addresses of its trains
simulateStepOnHeap(h, r, s) ==
    IF s.hasCollided
    THEN [heap |-> h, refs |-> r]
    ELSE LET actionA == getNextAction(h[r.trainA], h[r.trainB].parachutePosition)
             actionB == getNextAction(h[r.trainB], h[r.trainA].parachutePosition)
             resA == applyActionOnHeap(h, r.trainA, actionA, h[r.trainB].parachutePosition)
             resB == applyActionOnHeap(resA.heap, r.trainB, actionB,
                                       resA.heap[r.trainA].parachutePosition)
         IN  [heap |-> resB.heap,
              refs |-> [trainA |-> resA.ref, trainB |-> resB.ref]]

\* ------------------------------------------------------------------ state
VARIABLES
    distance,   \* the separation handed to runSimulation / createSimulation
    maxSteps,   \* the step budget handed to runSimulation
    state,      \* runSimulation's `state`, then the world the caller holds
    mirror,     \* the world of the run from createSimulation(-distance)
    pc,         \* "loop": inside runSimulation's while; "returned": after it
    extra,      \* simulateStep calls made by the caller after the return
    heap,       \* the train objects allocated so far
    trainRefs   \* the addresses of state.trainA and state.trainB in the heap

vars == <<distance, maxSteps, state, mirror, pc, extra, heap, trainRefs>>

Init ==
    /\ distance \in -MaxD .. MaxD
    /\ maxSteps \in 0 .. MaxBudget
    /\ state = createSimulation(distance)
    /\ mirror = createSimulation(-distance)
    /\ pc = "loop"
    /\ extra = 0
    /\ heap = <<createTrainState(0), createTrainState(distance)>>
    /\ trainRefs = [trainA |-> 1, trainB |-> 2]

\* variant: the loop condition lets one step too many through (<= for <)
RunLoopStep_OffByOne ==
    /\ pc = "loop"
    /\ ~state.hasCollided /\ state.stepCount <= maxSteps
    /\ state' = simulateStep(state)
    /\ mirror' = simulateStep(mirror)
    /\ heap' = simulateStepOnHeap(heap, trainRefs, state).heap
    /\ trainRefs' = simulateStepOnHeap(heap, trainRefs, state).refs
    /\ UNCHANGED <<distance, maxSteps, pc, extra>>

\* one iteration of runSimulation's while loop
RunLoopStep ==
    /\ pc = "loop"
    /\ ~state.hasCollided /\ state.stepCount < maxSteps
    /\ state' = simulateStep(state)
    /\ mirror' = simulateStep(mirror)
    /\ heap' = simulateStepOnHeap(heap, trainRefs, state).heap
    /\ trainRefs' = simulateStepOnHeap(heap, trainRefs, state).refs
    /\ UNCHANGED <<distance, maxSteps, pc, extra>>

\* the while condition fails: runSimulation returns `state`
RunReturn ==
    /\ pc = "loop"
    /\ ~(~state.hasCollided /\ state.stepCount < maxSteps)
    /\ pc' = "returned"
    /\ UNCHANGED <<distance, maxSteps, state, mirror, extra, heap, trainRefs>>

\* the caller steps the world it holds (auto-play timer, test loops); the
\* world may already be collided
CallerStep ==
    /\ pc = "returned"
    /\ extra < MaxExtra
    /\ state' = simulateStep(state)
    /\ mirror' = simulateStep(mirror)
    /\ heap' = simulateStepOnHeap(heap, trainRefs, state).heap
    /\ trainRefs' = simulateStepOnHeap(heap, trainRefs, state).refs
    /\ extra' = extra + 1
    /\ UNCHANGED <<distance, maxSteps, pc>>

Next == RunLoopStep \/ RunReturn \/ CallerStep

Spec == Init /\ [][Next]_vars

\* runSimulation's loop is an ordinary while loop: it keeps iterating and
\* then returns
FairSpec == Spec /\ WF_vars(RunLoopStep) /\ WF_vars(RunReturn)

\* ----------------------------------------------------------------- claims
TrainNames == {"trainA", "trainB"}

\* C1: eventual collision - for every separation in -MaxD .. MaxD,
\* runSimulation with a sufficiently large budget steps the world until
\* it returns a world with hasCollided = TRUE.
EventualCollision ==
    (maxSteps = MaxBudget) ~> (pc = "returned" /\ state.hasCollided)

\* reached: runSimulation(-MaxD, MaxBudget) has returned a collided world
EventualCollisionWitness ==
    /\ pc = "returned"
    /\ maxSteps = MaxBudget
    /\ distance = -MaxD
    /\ state.hasCollided

\* C2: collision coordinate - for every separation D >= 0 the collided
\* world returned by runSimulation has collisionPosition = D.
CollisionCoordinate ==
    (pc = "returned" /\ extra = 0 /\ distance >= 0 /\ state.hasCollided)
        => state.collisionPosition = Num(distance)

\* C3: frozen after collision - simulateStep returns a collided world
\* unchanged in every field, so no tick changes a collided world.
FrozenAfterCollision ==
    /\ [](state.hasCollided => simulateStep(state) = state)
    /\ [][state.hasCollided => state' = state]_vars

\* reached: the caller has stepped a collided world
FrozenAfterCollisionWitness ==
    /\ state.hasCollided
    /\ extra > 0

\* C4: latch monotonicity - a train whose isWaiting is true has isWaiting
\* true after every further tick.
LatchMonotonic ==
    [][\A X \in TrainNames : state[X].isWaiting => state'[X].isWaiting]_vars

\* reached: train A latched on one tick and was stepped again, still
\* latched, on the colliding tick (separation 2 or more)
LatchMonotonicWitness ==
    /\ distance >= 2
    /\ state.hasCollided
    /\ state.trainA.isWaiting

\* C5: offset invariant - each train has
\* distanceFromHome = position - parachutePosition in every world.
OffsetInvariant ==
    \A X \in TrainNames :
        state[X].distanceFromHome = state[X].position - state[X].parachutePosition

\* reached: a train has moved forward and then backward past its home
OffsetInvariantWitness ==
    /\ state.stepCount >= 3
    /\ state.trainA.distanceFromHome < 0

\* C6: phase monotonicity - phaseNumber is at least 1, and from one tick to
\* the next it either stays or grows by exactly 1, the latter exactly on the
\* tick that completes return_from_backward.
PhaseTick(t, u) ==
    /\ \/ u.phaseNumber = t.phaseNumber
       \/ /\ u.phaseNumber = t.phaseNumber + 1
          /\ t.sweepPhase = "return_from_backward"
          /\ t.stepsInPhase + 1 = t.phaseNumber
          /\ u.sweepPhase = "sweep_forward"
    /\ (t.sweepPhase = "return_from_backward" /\ u.sweepPhase = "sweep_forward")
           => u.phaseNumber = t.phaseNumber + 1

PhaseMonotonic ==
    /\ [](\A X \in TrainNames : state[X].phaseNumber >= 1)
    /\ [][\A X \in TrainNames : PhaseTick(state[X], state'[X])]_vars

\* reached: a train has completed two full cycles
PhaseMonotonicWitness == state.trainA.phaseNumber >= 3

\* C7: stepsInPhase bound - 0 <= stepsInPhase < phaseNumber in every world,
\* and stepsInPhase is 0 right after every change of sweepPhase.
StepsInPhaseBound ==
    /\ [](\A X \in TrainNames :
            0 <= state[X].stepsInPhase /\ state[X].stepsInPhase < state[X].phaseNumber)
    /\ [][\A X \in TrainNames :
            state'[X].sweepPhase # state[X].sweepPhase => state'[X].stepsInPhase = 0]_vars

\* reached: a train has just finished a sub-phase of more than one step
StepsInPhaseBoundWitness ==
    /\ state.trainA.phaseNumber >= 2
    /\ state.trainA.sweepPhase = "sweep_backward"
    /\ state.trainA.stepsInPhase = 0

\* C8 as stated: at every tick each train's position in the run from
\* createSimulation(-D) is minus its position in the run from
\* createSimulation(D).
MirrorSymmetry ==
    \A X \in TrainNames : mirror[X].position = -(state[X].position)

\* C8 amended: at every tick the signed gap trainB.position - trainA.position
\* of the run from createSimulation(-D) is minus the gap of the run from
\* createSimulation(D).
Gap(s) == s.trainB.position - s.trainA.position

MirrorGap == Gap(mirror) = -Gap(state)

\* reached: the gap has started to close in both runs (a train is waiting in
\* each)
MirrorGapWitness ==
    /\ distance # 0
    /\ state.stepCount > 0
    /\ Gap(state) # distance
    /\ Gap(mirror) # -distance

\* C9 as stated: hasCollided is true exactly when both trains share a
\* position, in every world including the ones createSimulation returns.
CollisionTracksColocation ==
    state.hasCollided <=> (state.trainA.position = state.trainB.position)

\* C9 amended: in every world simulateStep produced, hasCollided is true
\* exactly when both trains share a position; the world createSimulation
\* returns has hasCollided = FALSE, also when the trains start together.
CollisionTracksColocationAfterStep ==
    /\ state.stepCount >= 1 =>
         (state.hasCollided <=> (state.trainA.position = state.trainB.position))
    /\ state.stepCount = 0 => ~state.hasCollided

\* reached: a tick brought two trains that started apart to one position
CollisionTracksColocationWitness ==
    /\ distance # 0
    /\ state.stepCount >= 1
    /\ state.trainA.position = state.trainB.position

\* C10: collisionPosition is a number exactly in the collided worlds; on the
\* tick that detects the collision it is the position both trains share, and
\* it keeps that value afterwards.
CollisionPositionDefined ==
    /\ [](state.hasCollided <=> state.collisionPosition # Null)
    /\ [][(~state.hasCollided /\ state'.hasCollided) =>
            /\ state'.collisionPosition = Num(state'.trainA.position)
            /\ state'.collisionPosition = Num(state'.trainB.position)]_vars
    /\ [][state.hasCollided => state'.collisionPosition = state.collisionPosition]_vars

\* reached: a collision was recorded and the world was stepped again
CollisionPositionDefinedWitness ==
    /\ state.collisionPosition # Null
    /\ distance < 0
    /\ extra >= 2

\* C11: runSimulation terminates for every separation and every budget
\* maxSteps >= 0, and the world it returns has stepCount <= maxSteps and is
\* collided or has used the whole budget.
RunTerminatesWithinBudget ==
    /\ <>(pc = "returned")
    /\ []((pc = "returned" /\ extra = 0) =>
            /\ state.stepCount <= maxSteps
            /\ (state.hasCollided \/ state.stepCount = maxSteps))

\* reached: runSimulation returned with the budget used up and no collision
RunTerminatesWithinBudgetWitness ==
    /\ pc = "returned"
    /\ extra = 0
    /\ maxSteps > 0
    /\ state.stepCount = maxSteps
    /\ ~state.hasCollided

\* C12: runSimulation(0, 10) returns a collided world with stepCount <= 1 and
\* collisionPosition = 0.
ZeroSeparation ==
    (pc = "returned" /\ extra = 0 /\ distance = 0 /\ maxSteps = 10) =>
        /\ state.hasCollided
        /\ state.stepCount <= 1
        /\ state.collisionPosition = Num(0)

\* the other train
Other(X) == IF X = "trainA" THEN "trainB" ELSE "trainA"

\* C13: a waiting train stands on the other train's parachute position and not
\* on its own; the latch is set only by a 'wait' action applied to a train
\* that stands there.
WaitsOnlyAtForeignMarker ==
    /\ [](\A X \in TrainNames :
            state[X].isWaiting =>
                /\ state[X].position = state[Other(X)].parachutePosition
                /\ state[X].position # state[X].parachutePosition)
    /\ [][\A X \in TrainNames :
            (~state[X].isWaiting /\ state'[X].isWaiting) =>
                /\ getNextAction(state[X], state[Other(X)].parachutePosition) = "wait"
                /\ state[X].position = state[Other(X)].parachutePosition
                /\ state[X].position # state[X].parachutePosition]_vars

\* reached: train B waits on train A's parachute (negative separation)
WaitsOnlyAtForeignMarkerWitness ==
    /\ state.trainB.isWaiting
    /\ state.trainB.position = 0
    /\ distance < 0

\* C14 as stated: for every nonzero separation a train is waiting in a state
\* strictly before the first collided state (so in the state the colliding
\* tick starts from).
WaitingPrecedesCollision ==
    [][(distance # 0 /\ ~state.hasCollided /\ state'.hasCollided) =>
            (state.trainA.isWaiting \/ state.trainB.isWaiting)]_vars

\* C14 amended: for every nonzero separation a train is waiting in the first
\* collided state; for separations of 2 or more (either sign) a train is
\* waiting already in the state before the colliding tick.
WaitingByCollision ==
    /\ []((distance # 0 /\ state.hasCollided) =>
            (state.trainA.isWaiting \/ state.trainB.isWaiting))
    /\ [][((distance >= 2 \/ distance <= -2) /\ ~state.hasCollided /\ state'.hasCollided) =>
            (state.trainA.isWaiting \/ state.trainB.isWaiting)]_vars

\* reached: a train waits while the world is not yet collided
WaitingByCollisionWitness ==
    /\ ~state.hasCollided
    /\ (state.trainA.isWaiting \/ state.trainB.isWaiting)

\* C15: createSimulation(D) is the world with trainA = createTrainState(0),
\* trainB = createTrainState(D), stepCount 0, hasCollided false and no
\* collisionPosition; createTrainState(p) is the train at p with its parachute
\* at p, distanceFromHome 0, sweep_forward, phaseNumber 1, stepsInPhase 0, not
\* waiting.
InitialWorld ==
    state.stepCount = 0 =>
        /\ state.trainA = createTrainState(0)
        /\ state.trainB = createTrainState(distance)
        /\ state.trainA = [position |-> 0, parachutePosition |-> 0,
                           distanceFromHome |-> 0, sweepPhase |-> "sweep_forward",
                           phaseNumber |-> 1, stepsInPhase |-> 0, isWaiting |-> FALSE]
        /\ state.trainB = [position |-> distance, parachutePosition |-> distance,
                           distanceFromHome |-> 0, sweepPhase |-> "sweep_forward",
                           phaseNumber |-> 1, stepsInPhase |-> 0, isWaiting |-> FALSE]
        /\ state.hasCollided = FALSE
        /\ state.collisionPosition = Null

\* reached: the world as createSimulation built it, for a positive separation
InitialWorldWitness ==
    /\ pc = "loop"
    /\ state.stepCount = 0
    /\ distance > 0

\* C16: in a non-collided world, the record simulateStep produces for a train
\* depends only on that train's record and on the other train's
\* parachutePosition: replacing every other field of the other train by any
\* value leaves it the same.
SweepPhases ==
    {"sweep_forward", "return_from_forward", "sweep_backward", "return_from_backward"}

\* other-train records tried: any position, offset, phase and latch
AltTrains(home) ==
    [position : (-2 * MaxD) .. (2 * MaxD),
     parachutePosition : {home},
     distanceFromHome : -1 .. 1,
     sweepPhase : SweepPhases,
     phaseNumber : 1 .. 2,
     stepsInPhase : 0 .. 1,
     isWaiting : BOOLEAN]

NoCommunication ==
    (maxSteps = MaxBudget /\ ~state.hasCollided) =>
        \A X \in TrainNames :
            \A o \in AltTrains(state[Other(X)].parachutePosition) :
                simulateStep([state EXCEPT ![Other(X)] = o])[X] = simulateStep(state)[X]

\* reached: a non-collided world in which one train waits and the other moves
NoCommunicationWitness ==
    /\ maxSteps = MaxBudget
    /\ ~state.hasCollided
    /\ state.trainA.isWaiting
    /\ ~state.trainB.isWaiting

\* C17: simulateStep and applyAction never change the records they are given:
\* no tick changes any field of a train object that existed before it, and
\* the world's trains are the objects the heap holds for them.
ValueSemantics ==
    /\ [](\A X \in TrainNames : heap[trainRefs[X]] = state[X])
    /\ [][\A a \in 1 .. Len(heap) : heap'[a] = heap[a]]_vars

\* reached: the trains have moved on while the objects createSimulation made
\* are still in the heap
ValueSemanticsWitness ==
    /\ Len(heap) >= 6
    /\ heap[1] # state.trainA
    /\ heap[2] # state.trainB

\* C18: a waiting train is frozen - in a non-collided world a train with
\* isWaiting true gets the action 'wait' and simulateStep returns its record
\* unchanged (position, distanceFromHome, sweepPhase, phaseNumber,
\* stepsInPhase).
WaitingTrainFrozen ==
    /\ [](~state.hasCollided =>
            \A X \in TrainNames :
                state[X].isWaiting =>
                    /\ getNextAction(state[X], state[Other(X)].parachutePosition) = "wait"
                    /\ simulateStep(state)[X] = state[X])
    /\ [][\A X \in TrainNames : state[X].isWaiting => state'[X] = state[X]]_vars

\* reached: runSimulation returned a non-collided world in which train B
\* waits, and the caller steps it
WaitingTrainFrozenWitness ==
    /\ pc = "returned"
    /\ extra >= 1
    /\ ~state.hasCollided
    /\ state.trainB.isWaiting

\* C19: a train that stands on the other train's parachute (and not on its
\* own) in a non-collided world gets the action 'wait'; the tick leaves its
\* position unchanged and sets isWaiting, and its position never changes
\* again.
AtForeignMarker(X) ==
    /\ state[X].position = state[Other(X)].parachutePosition
    /\ state[X].position # state[X].parachutePosition

NeverPassesForeignMarker ==
    /\ [](~state.hasCollided =>
            \A X \in TrainNames :
                AtForeignMarker(X) =>
                    /\ getNextAction(state[X], state[Other(X)].parachutePosition) = "wait"
                    /\ simulateStep(state)[X].position = state[X].position
                    /\ simulateStep(state)[X].isWaiting)
    /\ [][\A X \in TrainNames :
            AtForeignMarker(X) => state'[X].position = state[X].position]_vars

\* reached: train A has just arrived on train B's parachute and is not yet
\* latched
NeverPassesForeignMarkerWitness ==
    /\ AtForeignMarker("trainA")
    /\ ~state.trainA.isWaiting
    /\ ~state.hasCollided

\* C20: sweep cycle - sweepPhase changes only to the next sub-phase of the
\* cycle and only on the tick that makes the phaseNumber-th move of the
\* sub-phase; a train that is not waiting moves forward in sweep_forward and
\* return_from_backward and backward in the other two; so its distance from
\* home is fixed by the sub-phase and the steps taken in it, and is 0 when a
\* return sub-phase has ended.
NextPhase(p) ==
    CASE p = "sweep_forward" -> "return_from_forward"
      [] p = "return_from_forward" -> "sweep_backward"
      [] p = "sweep_backward" -> "return_from_backward"
      [] p = "return_from_backward" -> "sweep_forward"

Direction(p) == IF p \in {"sweep_forward", "return_from_backward"} THEN 1 ELSE -1

ExpectedOffset(t) ==
    CASE t.sweepPhase = "sweep_forward" -> t.stepsInPhase
      [] t.sweepPhase = "return_from_forward" -> t.phaseNumber - t.stepsInPhase
      [] t.sweepPhase = "sweep_backward" -> -(t.stepsInPhase)
      [] t.sweepPhase = "return_from_backward" -> -(t.phaseNumber - t.stepsInPhase)

SweepTick(t, u) ==
    /\ u.sweepPhase # t.sweepPhase =>
         /\ u.sweepPhase = NextPhase(t.sweepPhase)
         /\ t.stepsInPhase + 1 = t.phaseNumber
    /\ (state'.stepCount # state.stepCount /\ ~u.isWaiting) =>
         /\ u.position = t.position + Direction(t.sweepPhase)
         /\ t.stepsInPhase + 1 < t.phaseNumber =>
              (u.sweepPhase = t.sweepPhase /\ u.stepsInPhase = t.stepsInPhase + 1)
         /\ t.stepsInPhase + 1 = t.phaseNumber =>
              (u.sweepPhase = NextPhase(t.sweepPhase) /\ u.stepsInPhase = 0)

SweepCycle ==
    /\ [][\A X \in TrainNames : SweepTick(state[X], state'[X])]_vars
    /\ [](\A X \in TrainNames :
            ~state[X].isWaiting =>
                /\ state[X].distanceFromHome = ExpectedOffset(state[X])
                /\ (state[X].sweepPhase \in {"sweep_forward", "sweep_backward"}
                        /\ state[X].stepsInPhase = 0) => state[X].distanceFromHome = 0)

\* reached: a train that is not waiting has ended the return_from_backward
\* sub-phase of a cycle of more than one step and is back home
SweepCycleWitness ==
    /\ ~state.trainB.isWaiting
    /\ state.trainB.sweepPhase = "sweep_forward"
    /\ state.trainB.phaseNumber >= 3
    /\ state.trainB.stepsInPhase = 0
    /\ state.trainB.distanceFromHome = 0

\* C21: home is constant - trainA.parachutePosition is 0 and
\* trainB.parachutePosition is the separation in every world, and no tick
\* changes either.
HomeConstant ==
    /\ [](state.trainA.parachutePosition = 0 /\ state.trainB.parachutePosition = distance)
    /\ [][\A X \in TrainNames :
            state'[X].parachutePosition = state[X].parachutePosition]_vars

\* reached: both trains are away from their parachutes
HomeConstantWitness ==
    /\ distance # 0
    /\ state.trainA.position # 0
    /\ state.trainB.position # distance

\* C22: stepCount counts the executed ticks - simulateStep on a non-collided
\* world returns stepCount + 1, also on the tick that detects the collision;
\* stepCount never changes otherwise, and it equals the number of ticks that
\* were executed (each executed tick allocates two train records).
StepCountCountsTicks ==
    /\ [](~state.hasCollided => simulateStep(state).stepCount = state.stepCount + 1)
    /\ [](state.stepCount >= 0 /\ 2 * state.stepCount = Len(heap) - 2)
    /\ [][state'.stepCount = state.stepCount
            \/ (~state.hasCollided /\ state'.stepCount = state.stepCount + 1)]_vars
    /\ [][(~state.hasCollided /\ state'.hasCollided) =>
            state'.stepCount = state.stepCount + 1]_vars

\* reached: a collided world that took several ticks and was stepped again
\* by the caller
StepCountCountsTicksWitness ==
    /\ state.hasCollided
    /\ state.stepCount >= 8
    /\ extra = MaxExtra

\* a driver that chains the trains: train B's action and transition are
\* computed after train A's record has been advanced for the tick
chainedStep(s) ==
    IF s.hasCollided
    THEN s
    ELSE LET actionA == getNextAction(s.trainA, s.trainB.parachutePosition)
             newTrainA == applyAction(s.trainA, actionA, s.trainB.parachutePosition)
             actionB == getNextAction(s.trainB, newTrainA.parachutePosition)
             newTrainB == applyAction(s.trainB, actionB, newTrainA.parachutePosition)
             collided == checkCollision(newTrainA, newTrainB)
         IN  [trainA |-> newTrainA,
              trainB |-> newTrainB,
              stepCount |-> s.stepCount + 1,
              hasCollided |-> collided,
              collisionPosition |-> IF collided THEN Num(newTrainA.position) ELSE Null]

\* the world after n ticks from createSimulation(d)
RECURSIVE worldAfter(_, _)
worldAfter(d, n) ==
    IF n = 0 THEN createSimulation(d) ELSE simulateStep(worldAfter(d, n - 1))

\* C23 as stated: there is a reachable non-collided world on which the chained
\* step and simulateStep return different worlds (stated where a run starts:
\* some separation and some number of ticks lead to such a world).
SimultaneityMatters ==
    state.stepCount = 0 =>
        \E d \in -MaxD .. MaxD :
            \E n \in 0 .. MaxBudget :
                /\ ~worldAfter(d, n).hasCollided
                /\ chainedStep(worldAfter(d, n)) # simulateStep(worldAfter(d, n))

\* C23 amended: on every reachable non-collided world the chained step and
\* simulateStep return the same world.
ChainedStepAgrees ==
    ~state.hasCollided => chainedStep(state) = simulateStep(state)

\* reached: a non-collided world on whose tick train A moves onto a position
\* train B reads nothing of (train B is on its way back, train A about to
\* latch)
ChainedStepAgreesWitness ==
    /\ ~state.hasCollided
    /\ state.stepCount >= 1
    /\ getNextAction(state.trainA, state.trainB.parachutePosition) = "wait"
    /\ getNextAction(state.trainB, state.trainA.parachutePosition) # "wait"

\* C24: for every separation D >= 1, train A is never at D (nor beyond) in a
\* cycle with phaseNumber < D; it arrives at D by a move of the forward sweep
\* of the cycle with phaseNumber = D, waits there, and the collision is
\* detected at D when train B is back on its own parachute.
ForwardSweepFindsParachute ==
    /\ [](distance >= 1 =>
            /\ state.trainA.position <= distance
            /\ state.trainA.position = distance => state.trainA.phaseNumber = distance
            /\ (state.trainA.position = distance /\ ~state.hasCollided) =>
                 /\ simulateStep(state).trainA.isWaiting
                 /\ simulateStep(state).trainA.position = distance
            /\ state.hasCollided =>
                 /\ state.collisionPosition = Num(distance)
                 /\ state.trainA.isWaiting
                 /\ state.trainB.position = distance
                 /\ state.trainB.parachutePosition = distance
                 /\ state.trainB.distanceFromHome = 0)
    /\ [][(distance >= 1 /\ state.trainA.position # distance
                /\ state'.trainA.position = distance) =>
            /\ state.trainA.sweepPhase = "sweep_forward"
            /\ state.trainA.phaseNumber = distance
            /\ state.trainA.stepsInPhase = distance - 1]_vars

\* reached: train A waits on train B's parachute, three or more away, while
\* train B is still on its way home
ForwardSweepFindsParachuteWitness ==
    /\ distance >= 3
    /\ state.trainA.position = distance
    /\ state.trainA.isWaiting
    /\ state.trainB.position > distance

\* C25: exact collision tick - for every nonzero separation D the first
\* collided world has stepCount = 2*D*D, so runSimulation(D, maxSteps)
\* returns a collided world exactly when maxSteps >= 2*D*D; the budget needed
\* grows strictly with |D|.
Abs(x) == IF x < 0 THEN -x ELSE x

CollisionTick(d) == 2 * d * d

ExactCollisionTick ==
    /\ (distance # 0 /\ state.hasCollided) => state.stepCount = CollisionTick(distance)
    /\ (distance # 0 /\ pc = "returned" /\ extra = 0) =>
         (state.hasCollided <=> maxSteps >= CollisionTick(distance))
    /\ \A d \in -MaxD .. MaxD :
         Abs(d) > Abs(distance) => CollisionTick(d) > CollisionTick(distance)

\* reached: runSimulation returned a collided world for a budget of exactly
\* 2*D*D, D negative
ExactCollisionTickWitness ==
    /\ pc = "returned"
    /\ extra = 0
    /\ distance < -1
    /\ maxSteps = CollisionTick(distance)
    /\ state.hasCollided

\* C26: swap-and-translate symmetry - at every tick the run from
\* createSimulation(-D) is the run from createSimulation(D) with the trains
\* exchanged and every coordinate shifted by -D: same sweepPhase,
\* phaseNumber, stepsInPhase and isWaiting of the exchanged trains, same
\* stepCount and hasCollided.
SameUpToShift(t, u, shift) ==
    /\ t.position = u.position - shift
    /\ t.sweepPhase = u.sweepPhase
    /\ t.phaseNumber = u.phaseNumber
    /\ t.stepsInPhase = u.stepsInPhase
    /\ t.isWaiting = u.isWaiting

SwapTranslateSymmetry ==
    /\ SameUpToShift(mirror.trainA, state.trainB, distance)
    /\ SameUpToShift(mirror.trainB, state.trainA, distance)
    /\ mirror.stepCount = state.stepCount
    /\ mirror.hasCollided = state.hasCollided

\* reached: both runs have collided, the run for D at D and the run for -D
\* at 0
SwapTranslateSymmetryWitness ==
    /\ distance >= 2
    /\ state.hasCollided
    /\ mirror.hasCollided
    /\ state.collisionPosition = Num(distance)
    /\ mirror.collisionPosition = Num(0)

\* C27: collision at the higher home - for every nonzero separation D the
\* collision position is max(0, D); for D < 0 it is 0, train B is the one
\* that waits and train A the one that comes back home; for D > 0 train A is
\* the one that waits.
CollisionAtHigherHome ==
    (distance # 0 /\ state.hasCollided) =>
        /\ state.collisionPosition = Num(IF distance > 0 THEN distance ELSE 0)
        /\ distance < 0 =>
             /\ state.collisionPosition = Num(0)
             /\ state.trainB.isWaiting
             /\ ~state.trainA.isWaiting
             /\ state.trainA.position = state.trainA.parachutePosition
        /\ distance > 0 =>
             /\ state.trainA.isWaiting
             /\ ~state.trainB.isWaiting

\* reached: a run with a negative separation has collided at train A's home
CollisionAtHigherHomeWitness ==
    /\ distance <= -2
    /\ state.hasCollided
    /\ state.trainA.position = 0
    /\ state.trainB.position = 0

\* C28: lockstep - in every world where neither train is waiting, both trains
\* have the same distanceFromHome, sweepPhase, phaseNumber and stepsInPhase,
\* and so trainB.position - trainA.position is the separation.
Lockstep ==
    (~state.trainA.isWaiting /\ ~state.trainB.isWaiting) =>
        /\ state.trainA.distanceFromHome = state.trainB.distanceFromHome
        /\ state.trainA.sweepPhase = state.trainB.sweepPhase
        /\ state.trainA.phaseNumber = state.trainB.phaseNumber
        /\ state.trainA.stepsInPhase = state.trainB.stepsInPhase
        /\ state.trainB.position - state.trainA.position = distance

\* reached: both trains are in the second cycle or later, away from home and
\* not waiting
LockstepWitness ==
    /\ distance # 0
    /\ ~state.trainA.isWaiting
    /\ ~state.trainB.isWaiting
    /\ state.trainA.phaseNumber >= 2
    /\ state.trainA.distanceFromHome # 0

\* C29: no crossing - the distance between the trains never exceeds |D| and
\* never grows from one tick to the next, and the sign of
\* trainB.position - trainA.position never flips in a tick (it has to pass
\* through 0, where simulateStep flags the collision).
NoCrossing ==
    /\ [](Abs(Gap(state)) <= Abs(distance))
    /\ [](Gap(state) = 0 => (state.hasCollided \/ state.stepCount = 0))
    /\ [][/\ Abs(Gap(state')) <= Abs(Gap(state))
          /\ ~(Gap(state) > 0 /\ Gap(state') < 0)
          /\ ~(Gap(state) < 0 /\ Gap(state') > 0)]_vars

\* reached: the trains have closed in on each other without having met yet
NoCrossingWitness ==
    /\ Abs(distance) >= 3
    /\ Abs(Gap(state)) = 1
    /\ ~state.hasCollided

\* C30: one waiter, one returner - the two trains are never both waiting; for
\* every nonzero separation, in the first collided world exactly one train is
\* waiting and the other is not waiting and stands on its own parachute.
OneWaiterOneReturner ==
    /\ ~(state.trainA.isWaiting /\ state.trainB.isWaiting)
    /\ (distance # 0 /\ state.hasCollided) =>
         \E X \in TrainNames :
            /\ state[X].isWaiting
            /\ ~state[Other(X)].isWaiting
            /\ state[Other(X)].distanceFromHome = 0

\* reached: a collided world for a separation of 2 or more in which train A
\* waits and train B is back home
OneWaiterOneReturnerWitness ==
    /\ distance >= 2
    /\ state.hasCollided
    /\ state.trainA.isWaiting
    /\ state.trainB.distanceFromHome = 0
    /\ state.trainB.phaseNumber = distance

====
